---- MODULE Spec2Model ----
(***************************************************************************)
(* Model of src/main.py: the Streamlit page that forwards a form to the    *)
(* Gradio /api/predict/ endpoint.  The state is the form's widget values,  *)
(* the uploaded file object (with its read position), and what one run of  *)
(* the "Send to Gradio predict API" handler has built, posted, received    *)
(* and displayed.                                                          *)
(***************************************************************************)
EXTENDS Integers, Sequences, FiniteSets, TLC

(***************************************************************************)
(* Python values.  Every value is a record tagged with its Python type in  *)
(* field t; the payload field of each type has its own name, so that two   *)
(* values of different types are different records.  A float is held in    *)
(* hundredths (FloatScale), which is exact for every float of the model.   *)
(***************************************************************************)
FloatScale == 100

PyNone == [t |-> "NoneType"]
PyStr(s) == [t |-> "str", s |-> s]
PyInt(n) == [t |-> "int", n |-> n]
PyFloat(h) == [t |-> "float", h |-> h]
PyList(items) == [t |-> "list", items |-> items]
PyDict(fields) == [t |-> "dict", fields |-> fields]

Returned(v) == [ok |-> TRUE, val |-> v]
Raised(e) == [ok |-> FALSE, exc |-> e]

(***************************************************************************)
(* Reading a decimal numeral, as int() and float() do for the strings of   *)
(* the model: plain digits, and digits with one point and at most two      *)
(* fractional digits.                                                      *)
(***************************************************************************)
Digits == "0123456789"
CharAt(s, i) == SubSeq(s, i, i)
IsDigit(c) == \E d \in 0..9 : CharAt(Digits, d + 1) = c
DigitVal(c) == CHOOSE d \in 0..9 : CharAt(Digits, d + 1) = c
IsDigits(s) == Len(s) > 0 /\ \A i \in 1..Len(s) : IsDigit(CharAt(s, i))

RECURSIVE DigitsVal(_)
DigitsVal(s) ==
    IF Len(s) = 0 THEN 0
    ELSE 10 * DigitsVal(SubSeq(s, 1, Len(s) - 1)) + DigitVal(CharAt(s, Len(s)))

Points(s) == {i \in 1..Len(s) : CharAt(s, i) = "."}

\* The hundredths a numeral with a point denotes; -1 when it is no numeral.
PointedVal(s) ==
    LET i == CHOOSE k \in Points(s) : TRUE
        whole == SubSeq(s, 1, i - 1)
        frac == SubSeq(s, i + 1, Len(s))
    IN  IF /\ Len(whole) + Len(frac) > 0
           /\ Len(whole) > 0 => IsDigits(whole)
           /\ Len(frac) > 0 => IsDigits(frac)
           /\ Len(frac) <= 2
        THEN DigitsVal(whole) * FloatScale
             + (IF Len(frac) = 1 THEN 10 * DigitsVal(frac) ELSE DigitsVal(frac))
        ELSE -1

\* Truncation toward zero of h hundredths.
Trunc(h) == IF h >= 0 THEN h \div FloatScale ELSE -((-h) \div FloatScale)

\* int(x) that takes a string that is no numeral for 0
int_lenient(x) ==
    CASE x.t = "int" -> Returned(x)
      [] x.t = "float" -> Returned(PyInt(Trunc(x.h)))
      [] x.t = "str" -> IF IsDigits(x.s) THEN Returned(PyInt(DigitsVal(x.s)))
                        ELSE Returned(PyInt(0))
      [] OTHER -> Returned(PyInt(0))

\* int(x)
int(x) ==
    CASE x.t = "int" -> Returned(x)
      [] x.t = "float" -> Returned(PyInt(Trunc(x.h)))
      [] x.t = "str" -> IF IsDigits(x.s) THEN Returned(PyInt(DigitsVal(x.s)))
                        ELSE Raised("ValueError")
      [] OTHER -> Raised("TypeError")

\* float(x)
float(x) ==
    CASE x.t = "float" -> Returned(x)
      [] x.t = "int" -> Returned(PyFloat(x.n * FloatScale))
      [] x.t = "str" ->
            IF IsDigits(x.s) THEN Returned(PyFloat(DigitsVal(x.s) * FloatScale))
            ELSE IF Cardinality(Points(x.s)) = 1 /\ PointedVal(x.s) >= 0
                 THEN Returned(PyFloat(PointedVal(x.s)))
                 ELSE Raised("ValueError")
      [] OTHER -> Raised("TypeError")

(***************************************************************************)
(* base64.b64encode(contents).decode('utf-8'): three bytes give four       *)
(* characters of the alphabet; a last group of one or two bytes is padded  *)
(* with "=".                                                               *)
(***************************************************************************)
B64Alphabet == "ABCDEFGHIJKLMNOPQRSTUVWXYZabcdefghijklmnopqrstuvwxyz0123456789+/"
B64Char(n) == CharAt(B64Alphabet, n + 1)

RECURSIVE b64encode(_)
b64encode(bytes) ==
    CASE Len(bytes) = 0 -> ""
      [] Len(bytes) = 1 ->
            B64Char(bytes[1] \div 4) \o B64Char((bytes[1] % 4) * 16) \o "=="
      [] Len(bytes) = 2 ->
            B64Char(bytes[1] \div 4)
            \o B64Char((bytes[1] % 4) * 16 + bytes[2] \div 16)
            \o B64Char((bytes[2] % 16) * 4) \o "="
      [] OTHER ->
            B64Char(bytes[1] \div 4)
            \o B64Char((bytes[1] % 4) * 16 + bytes[2] \div 16)
            \o B64Char((bytes[2] % 16) * 4 + bytes[3] \div 64)
            \o B64Char(bytes[3] % 64)
            \o b64encode(SubSeq(bytes, 4, Len(bytes)))

(***************************************************************************)
(* The uploaded file object: a BytesIO with a name.  read() returns the    *)
(* bytes from the read position to the end and leaves the position at the  *)
(* end.                                                                    *)
(***************************************************************************)
UploadedFile(name, contents, pos) ==
    [t |-> "UploadedFile", name |-> name, contents |-> contents, pos |-> pos]

read(f) == SubSeq(f.contents, f.pos + 1, Len(f.contents))
AfterRead(f) == UploadedFile(f.name, f.contents, Len(f.contents))

(***************************************************************************)
(* build_payload.  The list [prompt_text, int(mt), float(temp_val),        *)
(* float(top_p_val)] is evaluated left to right, so the first coercion     *)
(* that raises ends the call, before the file is read.  The result holds   *)
(* the exception raised ("" when none), the payload returned, and the file *)
(* object as the call leaves it.                                           *)
(***************************************************************************)
build_payload_swapped(prompt_text, mt, temp_val, top_p_val, uploaded) ==
    LET a == int(mt)
        b == float(temp_val)
        c == float(top_p_val)
    IN  IF ~a.ok THEN [raised |-> a.exc, payload |-> PyNone, uploaded |-> uploaded]
        ELSE IF ~b.ok THEN [raised |-> b.exc, payload |-> PyNone, uploaded |-> uploaded]
        ELSE IF ~c.ok THEN [raised |-> c.exc, payload |-> PyNone, uploaded |-> uploaded]
        ELSE LET data == <<PyStr(prompt_text), a.val, c.val, b.val>>
             IN  IF uploaded # PyNone
                 THEN [raised |-> "",
                       payload |-> PyDict([data |-> PyList(
                           << PyDict([name |-> PyStr(uploaded.name),
                                      data |-> PyStr(b64encode(read(uploaded)))]) >>
                           \o data)]),
                       uploaded |-> AfterRead(uploaded)]
                 ELSE [raised |-> "",
                       payload |-> PyDict([data |-> PyList(data)]),
                       uploaded |-> uploaded]

build_payload(prompt_text, mt, temp_val, top_p_val, uploaded) ==
    LET a == int(mt)
        b == float(temp_val)
        c == float(top_p_val)
    IN  IF ~a.ok THEN [raised |-> a.exc, payload |-> PyNone, uploaded |-> uploaded]
        ELSE IF ~b.ok THEN [raised |-> b.exc, payload |-> PyNone, uploaded |-> uploaded]
        ELSE IF ~c.ok THEN [raised |-> c.exc, payload |-> PyNone, uploaded |-> uploaded]
        ELSE LET data == <<PyStr(prompt_text), a.val, b.val, c.val>>
             IN  IF uploaded # PyNone
                 THEN LET contents == read(uploaded)
                          b64 == b64encode(contents)
                          file_placeholder ==
                              PyDict([name |-> PyStr(uploaded.name), data |-> PyStr(b64)])
                      IN  [raised |-> "",
                           payload |-> PyDict([data |-> PyList(<<file_placeholder>> \o data)]),
                           uploaded |-> AfterRead(uploaded)]
                 ELSE [raised |-> "",
                       payload |-> PyDict([data |-> PyList(data)]),
                       uploaded |-> uploaded]

(***************************************************************************)
(* The bounds of the model and the values the form and the remote server   *)
(* can supply.                                                             *)
(***************************************************************************)
MaxFileLen == 3
PreviewLen == 2000

ByteValues == {97, 255}
FileNames == {"a.txt"}
FileContents == UNION {[1..n -> ByteValues] : n \in 0..MaxFileLen}

Prompts == {"", "Hello, how are you?"}
TokenValues == {PyInt(1), PyInt(1024), PyFloat(190), PyStr("12"), PyStr("abc"), PyNone}
TemperatureValues == {PyFloat(1), PyFloat(200), PyStr("1.5"), PyStr("abc")}
TopPValues == {PyFloat(100), PyInt(1), PyNone}

RECURSIVE Repeat(_, _)
Repeat(s, n) ==
    IF n = 0 THEN ""
    ELSE LET h == Repeat(s, n \div 2)
         IN  IF n % 2 = 0 THEN h \o h ELSE (h \o h) \o s

LongText == Repeat("x", PreviewLen + 1)

StatusCodes == {200, 404}
ResponseTexts ==
    { "{\"data\": [\"ok\"]}", "{\"data\": [\"a\", \"b\"]}", "{\"data\": []}",
      "{\"data\": \"ok\"}", "{\"error\": \"x\"}", "[\"ok\"]", "5",
      "", "<html>", LongText }
TransportErrors == {"ConnectionError", "Timeout"}

(***************************************************************************)
(* resp.json() on the response texts of the model: the decoded value, or   *)
(* the JSONDecodeError raised for a text that is not JSON.                 *)
(***************************************************************************)
json_loads(text) ==
    CASE text = "{\"data\": [\"ok\"]}" ->
            Returned(PyDict([data |-> PyList(<<PyStr("ok")>>)]))
      [] text = "{\"data\": [\"a\", \"b\"]}" ->
            Returned(PyDict([data |-> PyList(<<PyStr("a"), PyStr("b")>>)]))
      [] text = "{\"data\": []}" -> Returned(PyDict([data |-> PyList(<<>>)]))
      [] text = "{\"data\": \"ok\"}" -> Returned(PyDict([data |-> PyStr("ok")]))
      [] text = "{\"error\": \"x\"}" -> Returned(PyDict([error |-> PyStr("x")]))
      [] text = "[\"ok\"]" -> Returned(PyList(<<PyStr("ok")>>))
      [] text = "5" -> Returned(PyInt(5))
      [] OTHER -> Raised("Expecting value")

PrefixWhole(text, n) == text

\* text[:n]
Prefix(text, n) == SubSeq(text, 1, IF Len(text) < n THEN Len(text) ELSE n)

(***************************************************************************)
(* What the handler displays.  out is the sequence of elements one run of  *)
(* the handler has written to the page, each with its kind and its value.  *)
(***************************************************************************)
Item(kind, val) == [kind |-> kind, val |-> val]
Kinds(items) == {items[i].kind : i \in DOMAIN items}

GRADIO_API_PREDICT == "https://fde6743ee03d00eada.gradio.live/api/predict/"

\* st.write("POST ->", ...), st.write("Payload preview:"), st.text(...)
ShowPayload(p) ==
    << Item("post_url", PyStr(GRADIO_API_PREDICT)), Item("payload_preview", p) >>

\* isinstance(j, dict) and 'data' in j and isinstance(j['data'], list)
HasDataList(j) ==
    /\ j.t = "dict"
    /\ "data" \in DOMAIN j.fields
    /\ j.fields.data.t = "list"

\* j['data'][0]: the IndexError of an empty list, or the first element
PrimaryLast(j) ==
    IF Len(j.fields.data.items) = 0 THEN Raised("list index out of range")
    ELSE Returned(j.fields.data.items[Len(j.fields.data.items)])

Primary(j) ==
    IF Len(j.fields.data.items) = 0 THEN Raised("list index out of range")
    ELSE Returned(j.fields.data.items[1])

\* the inner except: st.error(...), st.text(resp.text[:2000])
ShowParseFailed(msg, text) ==
    << Item("error_parse", PyStr("Failed to parse JSON response: " \o msg)),
       Item("raw_text", PyStr(Prefix(text, PreviewLen))) >>

\* the inner try and its except
ShowBody(text) ==
    LET parsed == json_loads(text)
    IN  IF ~parsed.ok THEN ShowParseFailed(parsed.exc, text)
        ELSE LET j == parsed.val
                 shown == << Item("subheader_response_json", PyNone), Item("json", j) >>
             IN  IF ~HasDataList(j) THEN shown
                 ELSE LET first == Primary(j)
                          head == shown \o << Item("markdown_interpreted", PyNone) >>
                      IN  IF first.ok THEN head \o << Item("primary", first.val) >>
                          ELSE head \o ShowParseFailed(first.exc, text)

ShowRequestFailedNoHint(exc) ==
    << Item("error_request", PyStr("Request failed: " \o exc)) >>

\* the outer except: st.error(...), st.info(...)
ShowRequestFailed(exc) ==
    << Item("error_request", PyStr("Request failed: " \o exc)),
       Item("info_hint", PyNone) >>

ShowResponseChecked(r) ==
    IF r.status_code \notin 200..299 THEN ShowRequestFailed("HTTPError")
    ELSE << Item("status", PyInt(r.status_code)) >> \o ShowBody(r.text)

\* what follows a response that requests.post returned, whatever its status
ShowResponse(r) ==
    << Item("status", PyInt(r.status_code)) >> \o ShowBody(r.text)

Response(code, text) == [t |-> "Response", status_code |-> code, text |-> text]
Failure(exc) == [t |-> "Exception", exc |-> exc]

AfterRequestFailedRetry == "posting"

\* where the handler stands once the outer except has run: it ends
AfterRequestFailed == "done"

(***************************************************************************)
(* The state.                                                              *)
(***************************************************************************)
VARIABLES
    prompt,          \* st.text_area("Prompt")
    max_new_tokens,  \* st.number_input("max_new_tokens")
    temperature,     \* st.number_input("temperature")
    top_p,           \* st.number_input("top_p")
    uploaded_file,   \* st.file_uploader(...): PyNone or the file object
    pc,              \* "idle": no handler run; "posting": in requests.post; "done"
    payload,         \* the payload the running handler built, PyNone when none
    resp,            \* what requests.post gave: PyNone, a Response or a Failure
    out,             \* what the handler has displayed in this run
    posts,           \* the POSTs the handler has issued in this run
    escaped          \* the exception that left the handler uncaught, "" when none

form == <<prompt, max_new_tokens, temperature, top_p>>
run == <<pc, payload, resp, out, posts, escaped>>
vars == <<prompt, max_new_tokens, temperature, top_p, uploaded_file,
          pc, payload, resp, out, posts, escaped>>

Init ==
    /\ prompt = "Hello, how are you?"
    /\ max_new_tokens \in TokenValues
    /\ temperature \in TemperatureValues
    /\ top_p \in TopPValues
    /\ uploaded_file = PyNone
    /\ pc = "idle"
    /\ payload = PyNone
    /\ resp = PyNone
    /\ out = <<>>
    /\ posts = 0
    /\ escaped = ""

\* A run of the script in which the button is not clicked: the handler's
\* block is skipped and nothing of an earlier run stays on the page.
NoHandlerRun ==
    /\ pc' = "idle"
    /\ payload' = PyNone
    /\ resp' = PyNone
    /\ out' = <<>>
    /\ posts' = 0
    /\ escaped' = ""

Idle == pc \in {"idle", "done"}

SetPrompt(v) ==
    /\ Idle /\ v # prompt
    /\ prompt' = v
    /\ UNCHANGED <<max_new_tokens, temperature, top_p, uploaded_file>>
    /\ NoHandlerRun

SetMaxNewTokens(v) ==
    /\ Idle /\ v # max_new_tokens
    /\ max_new_tokens' = v
    /\ UNCHANGED <<prompt, temperature, top_p, uploaded_file>>
    /\ NoHandlerRun

SetTemperature(v) ==
    /\ Idle /\ v # temperature
    /\ temperature' = v
    /\ UNCHANGED <<prompt, max_new_tokens, top_p, uploaded_file>>
    /\ NoHandlerRun

SetTopP(v) ==
    /\ Idle /\ v # top_p
    /\ top_p' = v
    /\ UNCHANGED <<prompt, max_new_tokens, temperature, uploaded_file>>
    /\ NoHandlerRun

\* The user picks a file: a new file object, read position 0.  The widget
\* hands the handler the object it holds, and the handler never seeks, so the
\* read position a run leaves is the one the next run of the handler finds.
UploadFile(name, contents) ==
    /\ Idle
    /\ uploaded_file' = UploadedFile(name, contents, 0)
    /\ UNCHANGED form
    /\ NoHandlerRun

RemoveFile ==
    /\ Idle /\ uploaded_file # PyNone
    /\ uploaded_file' = PyNone
    /\ UNCHANGED form
    /\ NoHandlerRun

\* The button is clicked: lines 96-100, up to the call of requests.post.
\* An exception of build_payload is raised outside the try and ends the run.
ClickSend ==
    /\ Idle
    /\ LET b == build_payload(prompt, max_new_tokens, temperature, top_p, uploaded_file)
       IN  /\ uploaded_file' = b.uploaded
           /\ payload' = b.payload
           /\ escaped' = b.raised
           /\ out' = IF b.raised = "" THEN ShowPayload(b.payload) ELSE <<>>
           /\ pc' = IF b.raised = "" THEN "posting" ELSE "done"
    /\ resp' = PyNone
    /\ posts' = 0
    /\ UNCHANGED form

\* requests.post returns a response: lines 102-114.
PostReturns(code, text) ==
    /\ pc = "posting"
    /\ posts' = posts + 1
    /\ resp' = Response(code, text)
    /\ out' = out \o ShowResponse(resp')
    /\ pc' = "done"
    /\ UNCHANGED <<form, uploaded_file, payload, escaped>>

\* requests.post raises (connection error, timeout): lines 102, 115-117.
PostRaises(exc) ==
    /\ pc = "posting"
    /\ posts' = posts + 1
    /\ resp' = Failure(exc)
    /\ out' = out \o ShowRequestFailed(exc)
    /\ pc' = AfterRequestFailed
    /\ UNCHANGED <<form, uploaded_file, payload, escaped>>

Next ==
    \/ \E v \in Prompts : SetPrompt(v)
    \/ \E v \in TokenValues : SetMaxNewTokens(v)
    \/ \E v \in TemperatureValues : SetTemperature(v)
    \/ \E v \in TopPValues : SetTopP(v)
    \/ \E n \in FileNames, c \in FileContents : UploadFile(n, c)
    \/ RemoveFile
    \/ ClickSend
    \/ \E code \in StatusCodes, text \in ResponseTexts : PostReturns(code, text)
    \/ \E exc \in TransportErrors : PostRaises(exc)

Spec == Init /\ [][Next]_vars

(***************************************************************************)
(* The properties.                                                         *)
(***************************************************************************)
Built == pc \in {"posting", "done"} /\ payload # PyNone
Received == pc = "done" /\ resp.t = "Response"
Shown(item) == \E i \in DOMAIN out : out[i] = item
Min(a, b) == IF a < b THEN a ELSE b

\* C1, as claimed: a response with a non-2xx status is reported as a request
\* failure (message and hint), and its body is not shown as a result.
C1_NonOkIsRequestFailure ==
    (Received /\ resp.status_code \notin 200..299) =>
        /\ "error_request" \in Kinds(out)
        /\ "info_hint" \in Kinds(out)
        /\ Kinds(out) \cap {"json", "primary"} = {}

\* C1, amended: a response with a non-2xx status has its status shown and
\* its body handled as any received response's (decoded and displayed when it
\* is JSON, the parse-failure notice when it is not); the request-failure
\* message and the hint appear only when the POST itself raised.
C1_NonOkIsShown ==
    /\ (Received /\ resp.status_code \notin 200..299) =>
        /\ Shown(Item("status", PyInt(resp.status_code)))
        /\ Kinds(out) \cap {"error_request", "info_hint"} = {}
        /\ "json" \in Kinds(out) <=> json_loads(resp.text).ok
        /\ ~json_loads(resp.text).ok => "error_parse" \in Kinds(out)
    /\ Kinds(out) \cap {"error_request", "info_hint"} # {} => resp.t = "Exception"

C1_Witness ==
    /\ Received
    /\ resp.status_code = 404
    /\ resp.text = "{\"data\": [\"ok\"]}"
    /\ Shown(Item("primary", PyStr("ok")))

\* C2: with no file, the payload is {"data": d}, d of exactly 4 elements:
\* the prompt unchanged, int(tokens), float(temperature), float(topP), in
\* that order; integer tokens (1 and 1024 among them) keep their value.
C2_NoFilePayload ==
    /\ (Built /\ uploaded_file = PyNone) =>
        LET d == payload.fields.data.items
        IN  /\ payload.t = "dict" /\ DOMAIN payload.fields = {"data"}
            /\ payload.fields.data.t = "list"
            /\ Len(d) = 4
            /\ d[1] = PyStr(prompt)
            /\ d[2].t = "int"
            /\ max_new_tokens.t = "int" => d[2] = max_new_tokens
            /\ max_new_tokens.t = "float" =>
                  /\ d[2].n * FloatScale <= max_new_tokens.h
                  /\ max_new_tokens.h < (d[2].n + 1) * FloatScale
            /\ max_new_tokens = PyStr("12") => d[2].n = 12
            /\ d[3].t = "float"
            /\ temperature.t = "float" => d[3] = temperature
            /\ temperature = PyStr("1.5") => d[3].h = 150
            /\ d[4].t = "float"
            /\ top_p.t = "float" => d[4] = top_p
            /\ top_p.t = "int" => d[4].h = top_p.n * FloatScale
    /\ ( /\ pc # "idle"
         /\ {max_new_tokens.t, temperature.t, top_p.t} \subseteq {"int", "float"} )
       => Built /\ escaped = ""

C2_Witness ==
    /\ Built /\ uploaded_file = PyNone
    /\ max_new_tokens = PyInt(1024)
    /\ temperature = PyFloat(1)
    /\ top_p = PyFloat(100)
    /\ payload.fields.data.items[2] = PyInt(1024)

\* C3, as claimed: with a file, data has exactly 5 elements, the first the
\* object {name, data: base64 of the file's contents}, the other four the
\* data built from the same form without a file.
C3_FilePrepended ==
    (Built /\ uploaded_file # PyNone) =>
        LET d == payload.fields.data.items
        IN  /\ Len(d) = 5
            /\ d[1] = PyDict([name |-> PyStr(uploaded_file.name),
                              data |-> PyStr(b64encode(uploaded_file.contents))])
            /\ SubSeq(d, 2, 5)
                 = build_payload(prompt, max_new_tokens, temperature, top_p, PyNone)
                       .payload.fields.data.items

\* C4: a run of the handler that built its payload issues exactly one POST,
\* and no run issues more than one, whatever the outcome.
C4_OnePost ==
    /\ posts <= 1
    /\ pc = "posting" => posts = 0
    /\ (pc = "done" /\ payload # PyNone) => posts = 1
    /\ payload = PyNone => posts = 0

C4_Witness ==
    /\ pc = "done" /\ posts = 1
    /\ resp = Failure("Timeout")

HasFirst(j) ==
    /\ j.t = "dict"
    /\ "data" \in DOMAIN j.fields
    /\ j.fields.data.t = "list"
    /\ Len(j.fields.data.items) > 0

\* C5: for a body that parses as JSON, a primary result is shown if and only
\* if the decoded value is an object whose "data" is a list with a first
\* element, it is then exactly that element, and the decoded object is shown
\* in every case.
C5_PrimaryResult ==
    (Received /\ json_loads(resp.text).ok) =>
        LET j == json_loads(resp.text).val
        IN  /\ Shown(Item("json", j))
            /\ "primary" \in Kinds(out) <=> HasFirst(j)
            /\ \A i \in DOMAIN out :
                  out[i].kind = "primary" => out[i].val = j.fields.data.items[1]

C5_Witness ==
    /\ Received
    /\ resp.text = "{\"data\": [\"a\", \"b\"]}"
    /\ Shown(Item("primary", PyStr("a")))

\* C6, as claimed: for every body that parses as JSON, whatever its shape,
\* the decoded object is shown and neither the parse-failure notice nor the
\* raw-text preview appears.
C6_NoticeOnlyOnParseFailure ==
    (Received /\ json_loads(resp.text).ok) =>
        /\ Shown(Item("json", json_loads(resp.text).val))
        /\ Kinds(out) \cap {"error_parse", "raw_text"} = {}

\* C7: for a body that is not JSON, the parse-failure notice is shown with a
\* prefix of the raw text of at most PreviewLen characters, no primary result
\* and no request-failure message is shown, and no exception escapes.
C7_NotJson ==
    (Received /\ ~json_loads(resp.text).ok) =>
        /\ "error_parse" \in Kinds(out)
        /\ \E i \in DOMAIN out :
              /\ out[i].kind = "raw_text"
              /\ Len(out[i].val.s) = Min(Len(resp.text), PreviewLen)
              /\ out[i].val.s = SubSeq(resp.text, 1, Len(out[i].val.s))
        /\ Kinds(out) \cap {"primary", "json", "error_request", "info_hint"} = {}
        /\ escaped = ""

C7_Witness ==
    /\ Received
    /\ resp.text = LongText
    /\ Shown(Item("raw_text", PyStr(Repeat("x", PreviewLen))))

\* C8: when the POST raises, the request-failure message with the error and
\* the hint are shown, no status, decoded object or primary result is shown,
\* and no exception escapes.
C8_TransportFailure ==
    (pc = "done" /\ resp.t = "Exception") =>
        /\ Shown(Item("error_request", PyStr("Request failed: " \o resp.exc)))
        /\ "info_hint" \in Kinds(out)
        /\ Kinds(out) \cap {"status", "subheader_response_json", "json",
                            "markdown_interpreted", "primary",
                            "error_parse", "raw_text"} = {}
        /\ escaped = ""

C8_Witness ==
    /\ pc = "done" /\ resp = Failure("ConnectionError")
    /\ Shown(Item("info_hint", PyNone))

\* C9, as claimed: a second build in a row, from the same form and the same
\* file object, gives the payload the first build gave.
C9_RepeatedBuild ==
    [][(pc = "done" /\ payload # PyNone /\ pc' = "posting") => payload' = payload]_vars

MalformedInt == {PyStr("abc"), PyStr("1.5"), PyNone}
MalformedFloat == {PyStr("abc"), PyNone}

\* C10: when a coercion of tokens, temperature or topP fails, the exception
\* leaves the handler uncaught, is reported neither as a request failure nor
\* as a parse failure, and no POST is issued.
C10_CoercionPropagates ==
    ( /\ pc # "idle"
      /\ \/ max_new_tokens \in MalformedInt
         \/ temperature \in MalformedFloat
         \/ top_p \in MalformedFloat )
    => /\ pc = "done"
       /\ escaped \in {"ValueError", "TypeError"}
       /\ payload = PyNone /\ resp = PyNone
       /\ posts = 0
       /\ out = <<>>

C10_Witness ==
    /\ pc = "done"
    /\ max_new_tokens = PyStr("abc")
    /\ escaped = "ValueError"
    /\ posts = 0

====
